---- MODULE Spec2Model ----
(***************************************************************************)
(* Model of build.py: the dictionary/thesaurus builder.  It covers the     *)
(* SQLite store (create_tables, insert_lemma_entries), the batch submitter *)
(* (submit_batch) and the batch reconciler (process_batch), together with  *)
(* the files and the external batch job they communicate through.          *)
(*                                                                         *)
(* Texts that the program converts (lemma and part-of-speech fields, task  *)
(* identifiers) are sequences of one-character strings; texts it only      *)
(* copies (word forms, definitions, synonyms, antonyms) are plain strings. *)
(* A JSON object is a record whose DOMAIN is the set of keys present.      *)
(***************************************************************************)
EXTENDS Integers, Sequences, FiniteSets

(* ------------------------------ bounds --------------------------------- *)

\* longest result stream the external job returns
MaxLines == 2

\* number of invocations in one behaviour that submit a job or download its
\* results
MaxRuns == 3

\* number of pairs in the longest input file
MaxPairs == 11

(* --------------------------- text conversions -------------------------- *)

UpperChars == <<"A","B","C","D","E","F","G","H","I","J","K","L","M",
                "N","O","P","Q","R","S","T","U","V","W","X","Y","Z">>

LowerChars == <<"a","b","c","d","e","f","g","h","i","j","k","l","m",
                "n","o","p","q","r","s","t","u","v","w","x","y","z">>

Whitespace == {" ", "\t", "\r", "\n"}

DigitChars == <<"0","1","2","3","4","5","6","7","8","9">>

\* str.lower() on one character
LowerChar(c) ==
    IF \E i \in 1..26 : UpperChars[i] = c
    THEN LowerChars[CHOOSE i \in 1..26 : UpperChars[i] = c]
    ELSE c

\* str.lower()
Lower(s) == [i \in 1..Len(s) |-> LowerChar(s[i])]

RECURSIVE LStrip(_)
LStrip(s) ==
    IF s # <<>> /\ Head(s) \in Whitespace THEN LStrip(Tail(s)) ELSE s

RECURSIVE RStrip(_)
RStrip(s) ==
    IF s # <<>> /\ s[Len(s)] \in Whitespace
    THEN RStrip(SubSeq(s, 1, Len(s) - 1))
    ELSE s

\* str.strip()
Strip(s) == RStrip(LStrip(s))

\* the decimal digits of a natural number, as str(idx) writes them
RECURSIVE Decimal(_)
Decimal(n) ==
    IF n < 10 THEN <<DigitChars[n + 1]>>
    ELSE Decimal(n \div 10) \o <<DigitChars[(n % 10) + 1]>>

\* f"task-{idx}"
TaskId(idx) == <<"t","a","s","k","-">> \o Decimal(idx)

\* task_id.split("-")[-1]: the text after the last "-" (the whole text when
\* there is none)
RECURSIVE LastPiece(_)
LastPiece(s) ==
    IF \E i \in 1..Len(s) : s[i] = "-"
    THEN LastPiece(SubSeq(s, (CHOOSE i \in 1..Len(s) : s[i] = "-") + 1, Len(s)))
    ELSE s

DigitValue(c) == (CHOOSE i \in 1..10 : DigitChars[i] = c) - 1

IsDigit(c) == \E i \in 1..10 : DigitChars[i] = c

RECURSIVE DigitsValue(_)
DigitsValue(s) ==
    IF s = <<>> THEN 0
    ELSE DigitsValue(SubSeq(s, 1, Len(s) - 1)) * 10 + DigitValue(s[Len(s)])

\* int(text): ok is FALSE where int() raises ValueError
ParseInt(s) ==
    LET t == Strip(s) IN
    IF t # <<>> /\ \A i \in 1..Len(t) : IsDigit(t[i])
    THEN [ok |-> TRUE, val |-> DigitsValue(t)]
    ELSE [ok |-> FALSE, val |-> 0]

\* dict.get(key, default)
Get(d, key, default) == IF key \in DOMAIN d THEN d[key] ELSE default

(* ------------------------------ the store ------------------------------ *)

TableNames == {"lemmas", "words", "entries", "definitions", "synonyms", "antonyms"}

\* the six relations, empty: what create_tables leaves in a new database
EmptyTables == [t \in TableNames |-> {}]

\* the database file before it exists
NoDatabase == [created |-> FALSE, tables |-> EmptyTables]

SetMax(S) == CHOOSE m \in S : \A x \in S : x <= m

\* the rowid SQLite gives the next row of an INTEGER PRIMARY KEY table
NextRowId(rows) == IF rows = {} THEN 1 ELSE SetMax({r.id : r \in rows}) + 1

\* variant: the identifier is read one row too far
LastRowId_Next(rows) == NextRowId(rows)

\* cursor.lastrowid after an INSERT into rows
LastRowId(rows) == SetMax({r.id : r \in rows})

\* variant: a plain INSERT into a column that is not UNIQUE
InsertOrIgnoreLemma_Plain(t, lemma, input_pos) ==
    [t EXCEPT !.lemmas = @ \cup
        {[id |-> NextRowId(t.lemmas), lemma |-> lemma,
          input_part_of_speech |-> input_pos]}]

\* variant: ON CONFLICT(lemma) DO UPDATE SET input_part_of_speech
InsertOrIgnoreLemma_Update(t, lemma, input_pos) ==
    IF \E r \in t.lemmas : r.lemma = lemma
    THEN [t EXCEPT !.lemmas =
            {IF r.lemma = lemma THEN [r EXCEPT !.input_part_of_speech = input_pos]
                                ELSE r : r \in @}]
    ELSE [t EXCEPT !.lemmas = @ \cup
            {[id |-> NextRowId(t.lemmas), lemma |-> lemma,
              input_part_of_speech |-> input_pos]}]

\* INSERT OR IGNORE INTO lemmas: the UNIQUE lemma column makes it a no-op
\* when a row with this text exists
InsertOrIgnoreLemma(t, lemma, input_pos) ==
    IF \E r \in t.lemmas : r.lemma = lemma
    THEN t
    ELSE [t EXCEPT !.lemmas = @ \cup
            {[id |-> NextRowId(t.lemmas), lemma |-> lemma,
              input_part_of_speech |-> input_pos]}]

\* SELECT lemma_id FROM lemmas WHERE lemma = ?
SelectLemmaId(t, lemma) == (CHOOSE r \in t.lemmas : r.lemma = lemma).id

\* variant: INSERT OR REPLACE, the latest lemma takes the word over
InsertOrIgnoreWord_Replace(t, word, lemma_id) ==
    [t EXCEPT !.words = {r \in @ : r.word # word} \cup
        {[id |-> NextRowId(t.words), word |-> word, lemma_id |-> lemma_id]}]

\* INSERT OR IGNORE INTO words: the UNIQUE word column makes it a no-op when
\* the word exists, whichever lemma owns it
InsertOrIgnoreWord(t, word, lemma_id) ==
    IF \E r \in t.words : r.word = word
    THEN t
    ELSE [t EXCEPT !.words = @ \cup
            {[id |-> NextRowId(t.words), word |-> word, lemma_id |-> lemma_id]}]

\* variant: the loop stops one word form early
RECURSIVE InsertWordForms_SkipLast(_, _, _, _)
InsertWordForms_SkipLast(t, word_forms, lemma_id, k) ==
    IF k >= Len(word_forms) THEN t
    ELSE InsertWordForms_SkipLast(InsertOrIgnoreWord(t, word_forms[k], lemma_id),
                                  word_forms, lemma_id, k + 1)

\* the loop over word_forms
RECURSIVE InsertWordForms(_, _, _, _)
InsertWordForms(t, word_forms, lemma_id, k) ==
    IF k > Len(word_forms) THEN t
    ELSE InsertWordForms(InsertOrIgnoreWord(t, word_forms[k], lemma_id),
                         word_forms, lemma_id, k + 1)

\* variant: order indices counted from one
RECURSIVE InsertChildren_FromOne(_, _, _, _, _)
InsertChildren_FromOne(t, table, entry_id, texts, k) ==
    IF k > Len(texts) THEN t
    ELSE InsertChildren_FromOne(
            [t EXCEPT ![table] = @ \cup
                {[id |-> NextRowId(t[table]), entry_id |-> entry_id,
                  text |-> texts[k], order_index |-> k]}],
            table, entry_id, texts, k + 1)

\* the loops over entry['definitions'], entry['synonyms'], entry['antonyms']:
\* one row per element, order_index = its 0-based position
RECURSIVE InsertChildren(_, _, _, _, _)
InsertChildren(t, table, entry_id, texts, k) ==
    IF k > Len(texts) THEN t
    ELSE InsertChildren(
            [t EXCEPT ![table] = @ \cup
                {[id |-> NextRowId(t[table]), entry_id |-> entry_id,
                  text |-> texts[k], order_index |-> k - 1]}],
            table, entry_id, texts, k + 1)

\* one iteration of the loop over entries; ok is FALSE where a missing key
\* raises KeyError, and t then holds the rows inserted before the raise
InsertEntry(t, lemma_id, entry, entry_index) ==
    IF "part_of_speech" \notin DOMAIN entry THEN [ok |-> FALSE, t |-> t]
    ELSE
    LET t1 == [t EXCEPT !.entries = @ \cup
                 {[id |-> NextRowId(t.entries), lemma_id |-> lemma_id,
                   part_of_speech |-> entry.part_of_speech,
                   order_index |-> entry_index]}]
        entry_id == LastRowId(t1.entries)
    IN  IF "definitions" \notin DOMAIN entry THEN [ok |-> FALSE, t |-> t1]
        ELSE
        LET t2 == InsertChildren(t1, "definitions", entry_id, entry.definitions, 1)
        IN  IF "synonyms" \notin DOMAIN entry THEN [ok |-> FALSE, t |-> t2]
            ELSE
            LET t3 == InsertChildren(t2, "synonyms", entry_id, entry.synonyms, 1)
            IN  IF "antonyms" \notin DOMAIN entry THEN [ok |-> FALSE, t |-> t3]
                ELSE [ok |-> TRUE,
                      t |-> InsertChildren(t3, "antonyms", entry_id,
                                           entry.antonyms, 1)]

RECURSIVE InsertEntries(_, _, _, _)
InsertEntries(t, lemma_id, entries, k) ==
    IF k > Len(entries) THEN [ok |-> TRUE, t |-> t]
    ELSE LET r == InsertEntry(t, lemma_id, entries[k], k - 1)
         IN  IF r.ok THEN InsertEntries(r.t, lemma_id, entries, k + 1) ELSE r

\* insert_lemma_entries up to, not including, conn.commit(): t is the
\* connection's view afterwards, ok tells whether the commit is reached
InsertLemmaRows(t, lemma, input_pos, word_forms, entries) ==
    LET t1 == InsertOrIgnoreLemma(t, lemma, input_pos)
        lemma_id == SelectLemmaId(t1, lemma)
        t2 == InsertWordForms(t1, word_forms, lemma_id, 1)
        r  == InsertEntries(t2, lemma_id, entries, 1)
    IN  [ok |-> r.ok, t |-> r.t, lemma_id |-> lemma_id]

(* ------------------------------ the inputs ----------------------------- *)

Run == <<"r","u","n">>

Cat == <<"c","a","t">>

HeaderRow == <<<<"l","e","m","m","a">>, <<"p","o","s">>>>

Ten == <<"t","e","n">>

\* a file of MaxPairs data rows: run, cat, fillers, and ten in the last row
ManyRows ==
    <<HeaderRow, <<Run, <<"v">>>>, <<Cat, <<"n">>>>>>
        \o [i \in 1..(MaxPairs - 3) |-> <<<<"w", DigitChars[i]>>, <<"x">>>>]
        \o <<<<Ten, <<"m">>>>>>

\* lemmas.tsv as csv.reader yields it: absent, empty, header only, two
\* lemmas written with capitals and padding around a one-field row, the
\* same lemma text twice, a file long enough for two-digit positions, and
\* the single pair (run, v)
TsvFiles ==
    { [exists |-> FALSE, rows |-> <<>>],
      [exists |-> TRUE,  rows |-> <<>>],
      [exists |-> TRUE,  rows |-> <<HeaderRow>>],
      [exists |-> TRUE,  rows |-> <<HeaderRow,
                                    <<<<" ","R","u","n">>, <<"V"," ">>>>,
                                    <<<<"x">>>>,
                                    <<Cat, <<"n">>>>>>],
      [exists |-> TRUE,  rows |-> <<HeaderRow,
                                    <<Run, <<"v">>>>,
                                    <<Run, <<"n">>>>>>],
      [exists |-> TRUE,  rows |-> ManyRows],
      [exists |-> TRUE,  rows |-> <<HeaderRow, <<Run, <<"v">>>>>>] }

FullEntryV ==
    [part_of_speech |-> "v", definitions |-> <<"move fast", "operate">>,
     synonyms |-> <<"sprint">>, antonyms |-> <<"walk">>]

FullEntryN ==
    [part_of_speech |-> "n", definitions |-> <<"a kind">>,
     synonyms |-> <<>>, antonyms |-> <<"dog", "none">>]

\* an entry whose synonyms and antonyms arrays are missing
ShortEntry == [part_of_speech |-> "n", definitions |-> <<"a kind">>]

\* one line of the result artifact, by what json.loads makes of it: ok is
\* FALSE for a line that is no JSON; response stands for the value at
\* obj["response"]["body"]["choices"][0]["message"]["content"], itself a
\* JSON text with its own parse outcome
ResultLine(custom_id, data) ==
    [ok |-> TRUE,
     obj |-> [custom_id |-> custom_id, response |-> [ok |-> TRUE, data |-> data]]]

GarbageLine == [ok |-> FALSE]

RunLine ==
    ResultLine(TaskId(0),
               [lemma |-> <<"R","u","n">>, word_forms |-> <<"run", "ran">>,
                entries |-> <<FullEntryV, FullEntryN>>])

CatLine ==
    ResultLine(TaskId(1),
               [lemma |-> Cat, word_forms |-> <<"cat", "ran">>,
                entries |-> <<FullEntryN>>])

\* the payload's second entry lacks two arrays: the write raises partway
RunPartialLine ==
    ResultLine(TaskId(0),
               [lemma |-> Run, word_forms |-> <<"run">>,
                entries |-> <<FullEntryV, ShortEntry>>])

\* reports lemma "run" for task 1
RunAsTaskOneLine ==
    ResultLine(TaskId(1),
               [lemma |-> Run, word_forms |-> <<"runs">>,
                entries |-> <<FullEntryV>>])

\* the service's answer for run as a verb
RunVerbLine ==
    ResultLine(TaskId(0),
               [lemma |-> Run,
                word_forms |-> <<"run", "runs", "running", "ran">>,
                entries |-> <<[part_of_speech |-> "v",
                               definitions |-> <<"move fast">>,
                               synonyms |-> <<"sprint">>,
                               antonyms |-> <<"walk">>]>>])

\* the last position of the longest pair list
TenLine ==
    ResultLine(TaskId(MaxPairs - 1),
               [lemma |-> <<"T","e","n">>, word_forms |-> <<"ten", "tens">>,
                entries |-> <<>>])

\* a position beyond every pair list
BeyondLine ==
    ResultLine(TaskId(MaxPairs + 1),
               [lemma |-> Cat, word_forms |-> <<"cats">>, entries |-> <<FullEntryN>>])

\* no custom_id key
NoIdLine ==
    [ok |-> TRUE,
     obj |-> [response |-> [ok |-> TRUE,
                            data |-> [lemma |-> Cat, word_forms |-> <<"cats">>,
                                      entries |-> <<FullEntryN>>]]]]

\* no response content
NoResponseLine == [ok |-> TRUE, obj |-> [custom_id |-> TaskId(1)]]

\* the content is no JSON
BadContentLine ==
    [ok |-> TRUE, obj |-> [custom_id |-> TaskId(1), response |-> [ok |-> FALSE]]]

\* only the lemma key
LemmaOnlyLine == ResultLine(TaskId(1), [lemma |-> <<"C","A","T">>])

ResultLines ==
    { RunLine, CatLine, RunPartialLine, RunAsTaskOneLine, GarbageLine,
      BeyondLine, NoIdLine, NoResponseLine, BadContentLine, LemmaOnlyLine }

RECURSIVE SeqsUpTo(_, _)
SeqsUpTo(S, n) ==
    IF n = 0 THEN { <<>> }
    ELSE LET shorter == SeqsUpTo(S, n - 1)
         IN  shorter \cup { Append(s, x) : s \in shorter, x \in S }

\* the result streams a completed job may hand back: every stream of up to
\* MaxLines of the lines above, and the one-line streams of the two answers
\* above that are not among them
ResultStreams ==
    SeqsUpTo(ResultLines, MaxLines) \cup {<<RunVerbLine>>, <<TenLine>>}

(* ------------------------------- the state ----------------------------- *)

VARIABLES
    tsv,              \* lemmas.tsv
    tasks_file,       \* batch_tasks_lemmas.jsonl: one task per line
    job_id_file,      \* batch_job_id.txt
    job,              \* the batch job the service holds under the latest identifier;
                      \* its output is fixed by the first download
    results_file,     \* batch_job_results_lemmas.jsonl
    db,               \* dictionary.db as committed on disk
    conn,             \* the open connection's view: committed and pending rows
    pc,               \* "idle" between commands, "loop" inside process_batch's loop
    pos,              \* position of the next line the loop reads
    lemma_pos_pairs,  \* process_batch's local pair list
    task_id,          \* process_batch's local task_id: unbound until first assigned
    cmd,              \* the command of the latest invocation
    exit_code,        \* its exit status
    out,              \* what it printed
    runs,             \* invocations so far
    api_calls,        \* history: the calls the latest invocation made to the service
    failed_rows,      \* history: rows inserted by writes of this run that raised
    at_open           \* history: the committed rows when this run connected, and
                      \* whether this job's results had been downloaded before

vars == <<tsv, tasks_file, job_id_file, job, results_file, db, conn, pc, pos,
          lemma_pos_pairs, task_id, cmd, exit_code, out, runs, api_calls,
          failed_rows, at_open>>

NoFile == [exists |-> FALSE, content |-> <<>>]

File(content) == [exists |-> TRUE, content |-> content]

NoJob == [id |-> 0, status |-> "none", tasks |-> <<>>, fetched |-> FALSE,
          output |-> <<>>]

ClosedConn == [open |-> FALSE, t |-> EmptyTables]

Unbound == [bound |-> FALSE, text |-> <<>>]

Init ==
    /\ tsv \in TsvFiles
    /\ tasks_file = NoFile
    /\ job_id_file = [exists |-> FALSE, id |-> 0]
    /\ job = NoJob
    /\ results_file = NoFile
    /\ db = NoDatabase
    /\ conn = ClosedConn
    /\ pc = "idle"
    /\ pos = 0
    /\ lemma_pos_pairs = <<>>
    /\ task_id = Unbound
    /\ cmd = "none"
    /\ exit_code = -1
    /\ out = <<>>
    /\ runs = 0
    /\ api_calls = <<>>
    /\ failed_rows = {}
    /\ at_open = [tables |-> EmptyTables, rerun |-> FALSE]

(* ----------------------------- reading the input ----------------------- *)

\* the list comprehension over the rows after the header: rows of fewer than
\* two fields are dropped, both fields are stripped and lowercased
RECURSIVE PairsOf(_)
PairsOf(rows) ==
    IF rows = <<>> THEN <<>>
    ELSE LET row == Head(rows)
         IN  IF Len(row) >= 2
             THEN <<[lemma |-> Lower(Strip(row[1])),
                     input_pos |-> Lower(Strip(row[2]))]>> \o PairsOf(Tail(rows))
             ELSE PairsOf(Tail(rows))

\* next(reader) skips the header; on an empty file it raises StopIteration
ReadPairs(file) == PairsOf(Tail(file.rows))

(* ------------------------------ the service ---------------------------- *)

\* the external job finishes
JobCompletes ==
    /\ job.status = "in_progress"
    /\ job' = [job EXCEPT !.status = "completed"]
    /\ UNCHANGED <<tsv, tasks_file, job_id_file, results_file, db, conn, pc, pos,
                   lemma_pos_pairs, task_id, cmd, exit_code, out, runs, api_calls,
                   failed_rows, at_open>>

\* the external job ends without results
JobFails ==
    /\ job.status = "in_progress"
    /\ job' = [job EXCEPT !.status = "failed"]
    /\ UNCHANGED <<tsv, tasks_file, job_id_file, results_file, db, conn, pc, pos,
                   lemma_pos_pairs, task_id, cmd, exit_code, out, runs, api_calls,
                   failed_rows, at_open>>

\* lemmas.tsv is removed or emptied after a submission, before the job's
\* results are downloaded
InputLost ==
    /\ pc = "idle"
    /\ job.id > 0 /\ ~job.fetched
    /\ tsv.exists /\ tsv.rows # <<>>
    /\ tsv' \in {[exists |-> FALSE, rows |-> <<>>], [exists |-> TRUE, rows |-> <<>>]}
    /\ UNCHANGED <<tasks_file, job_id_file, job, results_file, db, conn, pc, pos,
                   lemma_pos_pairs, task_id, cmd, exit_code, out, runs, api_calls,
                   failed_rows, at_open>>

(* ------------------------------ submit_batch --------------------------- *)

\* commands run one at a time
CanInvoke == pc = "idle"

\* a command that ends at once: only its report changes
Exits(command, code, printed, called) ==
    /\ cmd' = command
    /\ exit_code' = code
    /\ out' = printed
    /\ api_calls' = called
    /\ UNCHANGED runs

SubmitInputMissing ==
    /\ CanInvoke
    /\ ~tsv.exists
    /\ Exits("submit", 1, <<"Error: 'lemmas.tsv' not found.">>, <<>>)
    /\ UNCHANGED <<tsv, tasks_file, job_id_file, job, results_file, db, conn, pc,
                   pos, lemma_pos_pairs, task_id, failed_rows, at_open>>

\* next(reader) on an empty file: StopIteration is not caught
SubmitInputEmpty ==
    /\ CanInvoke
    /\ tsv.exists /\ tsv.rows = <<>>
    /\ Exits("submit", 1, <<"Traceback: StopIteration">>, <<>>)
    /\ UNCHANGED <<tsv, tasks_file, job_id_file, job, results_file, db, conn, pc,
                   pos, lemma_pos_pairs, task_id, failed_rows, at_open>>

\* build_prompt: of the prompt text only the two interpolated values vary
BuildPrompt(lemma, input_pos) == [lemma |-> lemma, input_pos |-> input_pos]

\* variant: enumerate(lemma_pos_pairs, 1)
TasksFor_FromOne(pairs) ==
    [i \in 1..Len(pairs) |->
        [custom_id |-> TaskId(i),
         prompt |-> BuildPrompt(pairs[i].lemma, pairs[i].input_pos)]]

\* the task built for each position of the pair list: its custom_id and the
\* prompt of its user message
TasksFor(pairs) ==
    [i \in 1..Len(pairs) |->
        [custom_id |-> TaskId(i - 1),
         prompt |-> BuildPrompt(pairs[i].lemma, pairs[i].input_pos)]]

\* A behaviour follows the reconciliation of one job: jobs are resubmitted
\* only while no results have been downloaded.
SubmitBatch ==
    /\ CanInvoke
    /\ runs < MaxRuns
    /\ ~results_file.exists
    /\ tsv.exists /\ tsv.rows # <<>>
    /\ LET tasks == TasksFor(ReadPairs(tsv))
       IN  /\ tasks_file' = File(tasks)
           /\ job' = [id |-> job.id + 1, status |-> "in_progress",
                      tasks |-> tasks, fetched |-> FALSE, output |-> <<>>]
           /\ job_id_file' = [exists |-> TRUE, id |-> job.id + 1]
    /\ cmd' = "submit"
    /\ exit_code' = 0
    /\ out' = <<"Batch tasks file created", "Batch job submitted">>
    /\ api_calls' = <<"files.create", "batches.create">>
    /\ runs' = runs + 1
    /\ UNCHANGED <<tsv, results_file, db, conn, pc, pos, lemma_pos_pairs, task_id,
                   failed_rows, at_open>>

(* ------------------------------ process_batch -------------------------- *)

\* client.files.content(result_file_id).content: some result stream the first
\* time, the same one on every later download of this job
Downloads(j) == IF j.fetched THEN {j.output} ELSE ResultStreams

\* the job after its output was downloaded as stream
Fetched(j, stream) == [j EXCEPT !.fetched = TRUE, !.output = stream]

\* variant: only the presence of a reported lemma is checked
LemmaMatches_PresenceOnly(data, lemma) == Get(data, "lemma", <<>>) # <<>>

\* data.get("lemma", "").lower() != lemma, negated
LemmaMatches(data, lemma) == Lower(Get(data, "lemma", <<>>)) = lemma

\* variant: task_id keeps the first identifier it was given
BindTaskId_Once(obj, tid) ==
    IF tid.bound THEN tid ELSE [bound |-> TRUE, text |-> Get(obj, "custom_id", <<>>)]

\* task_id = obj.get("custom_id", ""): bound from here on, whatever it was
BindTaskId(obj, tid) == [bound |-> TRUE, text |-> Get(obj, "custom_id", <<>>)]

\* variant: an index beyond the list is taken as the last position
HandleLine_Clamps(line, pairs, tid, t) ==
    IF ~line.ok
    THEN [kind |-> IF tid.bound THEN "error" ELSE "crash", task_id |-> tid, t |-> t]
    ELSE
    LET obj == line.obj
        bound == BindTaskId(obj, tid)
        idx == ParseInt(LastPiece(bound.text))
        caught == [kind |-> "error", task_id |-> bound, t |-> t]
    IN  IF ~idx.ok THEN caught
        ELSE IF "response" \notin DOMAIN obj THEN caught
        ELSE IF ~obj.response.ok THEN caught
        ELSE IF pairs = <<>> THEN caught
        ELSE
        LET data == obj.response.data
            pair == pairs[IF idx.val >= Len(pairs) THEN Len(pairs) ELSE idx.val + 1]
        IN  IF ~LemmaMatches(data, pair.lemma)
            THEN [kind |-> "mismatch", task_id |-> bound, t |-> t]
            ELSE
            LET w == InsertLemmaRows(t, pair.lemma, pair.input_pos,
                                     Get(data, "word_forms", <<>>),
                                     Get(data, "entries", <<>>))
            IN  [kind |-> IF w.ok THEN "processed" ELSE "error",
                 task_id |-> bound, t |-> w.t]

\* One iteration of the loop over the result lines, from the connection's
\* view t and the binding of task_id.  kind is
\*   "crash"     the except clause itself raises: task_id was never bound
\*   "error"     an exception was caught and reported
\*   "mismatch"  the reported lemma is not the original one
\*   "processed" insert_lemma_entries returned, so its commit ran
\* and t is the connection's view afterwards.
HandleLine(line, pairs, tid, t) ==
    IF ~line.ok
    THEN [kind |-> IF tid.bound THEN "error" ELSE "crash", task_id |-> tid, t |-> t]
    ELSE
    LET obj == line.obj
        bound == BindTaskId(obj, tid)
        idx == ParseInt(LastPiece(bound.text))
        caught == [kind |-> "error", task_id |-> bound, t |-> t]
    IN  IF ~idx.ok THEN caught
        ELSE IF "response" \notin DOMAIN obj THEN caught
        ELSE IF ~obj.response.ok THEN caught
        ELSE IF idx.val >= Len(pairs) THEN caught
        ELSE
        LET data == obj.response.data
            pair == pairs[idx.val + 1]
        IN  IF ~LemmaMatches(data, pair.lemma)
            THEN [kind |-> "mismatch", task_id |-> bound, t |-> t]
            ELSE
            LET w == InsertLemmaRows(t, pair.lemma, pair.input_pos,
                                     Get(data, "word_forms", <<>>),
                                     Get(data, "entries", <<>>))
            IN  [kind |-> IF w.ok THEN "processed" ELSE "error",
                 task_id |-> bound, t |-> w.t]

\* The loop over lines from line k on, then conn.close(): the rows committed
\* when the run ends.  t is the connection's view, committed what the last
\* commit left on disk.
RECURSIVE ReconcileFrom(_, _, _, _, _, _)
ReconcileFrom(lines, pairs, k, tid, t, committed) ==
    IF k > Len(lines) THEN committed
    ELSE LET r == HandleLine(lines[k], pairs, tid, t)
         IN  IF r.kind = "crash" THEN committed
             ELSE ReconcileFrom(lines, pairs, k + 1, r.task_id, r.t,
                                IF r.kind = "processed" THEN r.t ELSE committed)

\* a whole run of the loop on a database holding tables t0
Reconcile(t0, lines, pairs) == ReconcileFrom(lines, pairs, 1, Unbound, t0, t0)

\* the rows of view t2 that view t1 lacks, each with its table
NewRows(t1, t2) ==
    UNION { { [table |-> tb, row |-> r] : r \in t2[tb] \ t1[tb] } : tb \in TableNames }

Report(kind) ==
    CASE kind = "processed" -> "Processed"
      [] kind = "mismatch"  -> "Warning: Response lemma does not match input"
      [] kind = "error"     -> "Error processing result"
      [] kind = "crash"     -> "Traceback: UnboundLocalError"

\* variant: the database is opened before the job identifier is looked for
ProcessNoJobId_ConnectsFirst ==
    /\ CanInvoke
    /\ ~job_id_file.exists
    /\ db' = [db EXCEPT !.created = TRUE]
    /\ Exits("process", 1, <<"No batch job ID found.">>, <<>>)
    /\ UNCHANGED <<tsv, tasks_file, job_id_file, job, results_file, conn, pc,
                   pos, lemma_pos_pairs, task_id, failed_rows, at_open>>

\* batch_job_id.txt cannot be opened
ProcessNoJobId ==
    /\ CanInvoke
    /\ ~job_id_file.exists
    /\ Exits("process", 1, <<"No batch job ID found.">>, <<>>)
    /\ UNCHANGED <<tsv, tasks_file, job_id_file, job, results_file, db, conn, pc,
                   pos, lemma_pos_pairs, task_id, failed_rows, at_open>>

\* variant: the results file is opened for writing before the status check
ProcessPending_SavesFirst ==
    /\ CanInvoke
    /\ job_id_file.exists
    /\ job.status # "completed"
    /\ results_file' = File(<<>>)
    /\ Exits("process", 0, <<"Batch job not complete yet.", job.status>>,
             <<"batches.retrieve">>)
    /\ UNCHANGED <<tsv, tasks_file, job_id_file, job, db, conn, pc,
                   pos, lemma_pos_pairs, task_id, failed_rows, at_open>>

ProcessPending ==
    /\ CanInvoke
    /\ job_id_file.exists
    /\ job.status # "completed"
    /\ Exits("process", 0, <<"Batch job not complete yet.", job.status>>,
             <<"batches.retrieve">>)
    /\ UNCHANGED <<tsv, tasks_file, job_id_file, job, results_file, db, conn, pc,
                   pos, lemma_pos_pairs, task_id, failed_rows, at_open>>

\* variant: the database is opened before lemmas.tsv is looked for
ProcessInputMissing_ConnectsFirst ==
    /\ CanInvoke
    /\ job_id_file.exists
    /\ job.status = "completed"
    /\ ~tsv.exists
    /\ runs < MaxRuns
    /\ \E stream \in Downloads(job) :
          /\ job' = Fetched(job, stream)
          /\ results_file' = File(stream)
    /\ db' = [db EXCEPT !.created = TRUE]
    /\ cmd' = "process"
    /\ exit_code' = 1
    /\ out' = <<"Results saved", "Error: 'lemmas.tsv' not found.">>
    /\ api_calls' = <<"batches.retrieve", "files.content">>
    /\ runs' = runs + 1
    /\ UNCHANGED <<tsv, tasks_file, job_id_file, conn, pc, pos,
                   lemma_pos_pairs, task_id, failed_rows, at_open>>

\* the results are downloaded and saved before lemmas.tsv is looked for
ProcessInputMissing ==
    /\ CanInvoke
    /\ job_id_file.exists
    /\ job.status = "completed"
    /\ ~tsv.exists
    /\ runs < MaxRuns
    /\ \E stream \in Downloads(job) :
          /\ job' = Fetched(job, stream)
          /\ results_file' = File(stream)
    /\ cmd' = "process"
    /\ exit_code' = 1
    /\ out' = <<"Results saved", "Error: 'lemmas.tsv' not found.">>
    /\ api_calls' = <<"batches.retrieve", "files.content">>
    /\ runs' = runs + 1
    /\ UNCHANGED <<tsv, tasks_file, job_id_file, db, conn, pc, pos,
                   lemma_pos_pairs, task_id, failed_rows, at_open>>

ProcessInputEmpty ==
    /\ CanInvoke
    /\ job_id_file.exists
    /\ job.status = "completed"
    /\ tsv.exists /\ tsv.rows = <<>>
    /\ runs < MaxRuns
    /\ \E stream \in Downloads(job) :
          /\ job' = Fetched(job, stream)
          /\ results_file' = File(stream)
    /\ cmd' = "process"
    /\ exit_code' = 1
    /\ out' = <<"Results saved", "Traceback: StopIteration">>
    /\ api_calls' = <<"batches.retrieve", "files.content">>
    /\ runs' = runs + 1
    /\ UNCHANGED <<tsv, tasks_file, job_id_file, db, conn, pc, pos,
                   lemma_pos_pairs, task_id, failed_rows, at_open>>

\* download, re-read the input, connect, create_tables
ProcessOpen ==
    /\ CanInvoke
    /\ runs < MaxRuns
    /\ job_id_file.exists
    /\ job.status = "completed"
    /\ tsv.exists /\ tsv.rows # <<>>
    /\ \E stream \in Downloads(job) :
          /\ job' = Fetched(job, stream)
          /\ results_file' = File(stream)
    /\ lemma_pos_pairs' = ReadPairs(tsv)
    /\ db' = [db EXCEPT !.created = TRUE]
    /\ conn' = [open |-> TRUE, t |-> db.tables]
    /\ pc' = "loop"
    /\ pos' = 1
    /\ task_id' = Unbound
    /\ failed_rows' = {}
    /\ at_open' = [tables |-> db.tables, rerun |-> job.fetched]
    /\ cmd' = "process"
    /\ exit_code' = -1
    /\ out' = <<"Results saved">>
    /\ api_calls' = <<"batches.retrieve", "files.content">>
    /\ runs' = runs + 1
    /\ UNCHANGED <<tsv, tasks_file, job_id_file>>

\* one line handled; the loop goes on to the next
ProcessLine ==
    /\ pc = "loop"
    /\ pos <= Len(results_file.content)
    /\ LET r == HandleLine(results_file.content[pos], lemma_pos_pairs, task_id, conn.t)
       IN  /\ r.kind # "crash"
           /\ conn' = [conn EXCEPT !.t = r.t]
           /\ db' = IF r.kind = "processed" THEN [db EXCEPT !.tables = r.t] ELSE db
           /\ task_id' = r.task_id
           /\ out' = Append(out, Report(r.kind))
           /\ failed_rows' = IF r.kind = "error"
                             THEN failed_rows \cup NewRows(conn.t, r.t)
                             ELSE failed_rows
    /\ pos' = pos + 1
    /\ UNCHANGED <<tsv, tasks_file, job_id_file, job, results_file, pc,
                   lemma_pos_pairs, cmd, exit_code, runs, api_calls, at_open>>

\* the line at pos is one on which the except clause itself raises
LineCrashes ==
    HandleLine(results_file.content[pos], lemma_pos_pairs, task_id, conn.t).kind
        = "crash"

\* the except clause raises on the unbound task_id: the process dies with the
\* connection open, and what it had not committed is lost
ProcessLineCrash ==
    /\ pc = "loop"
    /\ pos <= Len(results_file.content)
    /\ LineCrashes
    /\ conn' = ClosedConn
    /\ pc' = "idle"
    /\ exit_code' = 1
    /\ out' = Append(out, Report("crash"))
    /\ UNCHANGED <<tsv, tasks_file, job_id_file, job, results_file, db, pos,
                   lemma_pos_pairs, task_id, cmd, runs, api_calls, failed_rows,
                   at_open>>

\* conn.close() after the last line: pending rows are not committed
ProcessClose ==
    /\ pc = "loop"
    /\ pos > Len(results_file.content)
    /\ conn' = ClosedConn
    /\ pc' = "idle"
    /\ exit_code' = 0
    /\ out' = Append(out, "Dictionary and thesaurus build complete.")
    /\ UNCHANGED <<tsv, tasks_file, job_id_file, job, results_file, db, pos,
                   lemma_pos_pairs, task_id, cmd, runs, api_calls, failed_rows,
                   at_open>>

Next ==
    \/ JobCompletes
    \/ JobFails
    \/ InputLost
    \/ SubmitInputMissing
    \/ SubmitInputEmpty
    \/ SubmitBatch
    \/ ProcessNoJobId
    \/ ProcessPending
    \/ ProcessInputMissing
    \/ ProcessInputEmpty
    \/ ProcessOpen
    \/ ProcessLine
    \/ ProcessLineCrash
    \/ ProcessClose

Spec == Init /\ [][Next]_vars


(* ------------------------- what the claims speak of -------------------- *)

Lines == results_file.content

\* a process run went through the result lines and has ended
RunEnded ==
    /\ pc = "idle"
    /\ cmd = "process"
    /\ out # <<>>
    /\ out[Len(out)] \in {"Dictionary and thesaurus build complete.",
                          "Traceback: UnboundLocalError"}

\* ... and ended by leaving the loop after the last line
RunCompleted ==
    /\ RunEnded
    /\ out[Len(out)] = "Dictionary and thesaurus build complete."
    /\ exit_code = 0

\* the loop is about to handle a line
AtLine == pc = "loop" /\ pos <= Len(Lines)

\* the loop has handled the line before pos and goes on
AfterLine == pc = "loop" /\ pos > 1

\* the line is JSON with a response that is JSON and a task identifier that
\* names a position of the pair list
Addressed(line, pairs) ==
    /\ line.ok
    /\ "response" \in DOMAIN line.obj
    /\ line.obj.response.ok
    /\ LET idx == ParseInt(LastPiece(Get(line.obj, "custom_id", <<>>)))
       IN  idx.ok /\ idx.val < Len(pairs)

PairOf(line, pairs) ==
    pairs[ParseInt(LastPiece(Get(line.obj, "custom_id", <<>>))).val + 1]

DataOf(line) == line.obj.response.data

\* the record reports the lemma of its original pair, up to case
ReportsOriginal(line, pairs) ==
    /\ Addressed(line, pairs)
    /\ "lemma" \in DOMAIN DataOf(line)
    /\ Lower(DataOf(line).lemma) = Lower(PairOf(line, pairs).lemma)

\* every entry of the record carries its four fields
Complete(line) ==
    \A i \in 1..Len(Get(DataOf(line), "entries", <<>>)) :
        {"part_of_speech", "definitions", "synonyms", "antonyms"}
            \subseteq DOMAIN DataOf(line).entries[i]

\* the rows of one result record, as they should appear in tables t: the lemma
\* row, every word form, and for the entry at each position a row with that
\* order index whose children carry their positions
Persisted(t, lemma, data) ==
    \E l \in t.lemmas :
        /\ l.lemma = lemma
        /\ \A k \in 1..Len(Get(data, "word_forms", <<>>)) :
              \E w \in t.words : w.word = data.word_forms[k]
        /\ \A i \in 1..Len(Get(data, "entries", <<>>)) :
              \E e \in t.entries :
                 /\ e.lemma_id = l.id
                 /\ e.order_index = i - 1
                 /\ e.part_of_speech = data.entries[i].part_of_speech
                 /\ \A k \in 1..Len(data.entries[i].definitions) :
                       \E c \in t.definitions :
                          /\ c.entry_id = e.id /\ c.order_index = k - 1
                          /\ c.text = data.entries[i].definitions[k]
                 /\ \A k \in 1..Len(data.entries[i].synonyms) :
                       \E c \in t.synonyms :
                          /\ c.entry_id = e.id /\ c.order_index = k - 1
                          /\ c.text = data.entries[i].synonyms[k]
                 /\ \A k \in 1..Len(data.entries[i].antonyms) :
                       \E c \in t.antonyms :
                          /\ c.entry_id = e.id /\ c.order_index = k - 1
                          /\ c.text = data.entries[i].antonyms[k]

(* --------------------------------- C1 ---------------------------------- *)

\* C1: per-lemma writes are all-or-nothing.  Once a process run has ended, no
\* row that a failed write of that run inserted (lemma, word, entry,
\* definition, synonym or antonym) is in the committed store, whatever
\* records came before or after the failing one.
C1_AllOrNothing ==
    pc = "idle" => \A f \in failed_rows : f.row \notin db.tables[f.table]

(* --------------------------------- C2 ---------------------------------- *)

\* C2: one bad record never aborts the batch.  Every process run that reaches
\* the result lines of a completed job runs to completion with status zero,
\* wherever a malformed line stands, and every line that parses, matches its
\* original lemma and is complete is then in the store.
C2_BadRecordNeverAborts ==
    RunEnded =>
        /\ RunCompleted
        /\ \A k \in 1..Len(Lines) :
              (ReportsOriginal(Lines[k], lemma_pos_pairs) /\ Complete(Lines[k]))
                  => Persisted(db.tables, PairOf(Lines[k], lemma_pos_pairs).lemma,
                               DataOf(Lines[k]))

(* --------------------------------- C3 ---------------------------------- *)

\* the record's reported lemma differs, case-insensitively, from the original
\* lemma at the record's index
ReportedLemmaDiffers(line, pairs) ==
    /\ Addressed(line, pairs)
    /\ Lower(Get(DataOf(line), "lemma", <<>>)) # Lower(PairOf(line, pairs).lemma)

\* C3: handling a record whose reported lemma differs (case-insensitively)
\* from the original lemma at its index writes nothing: the committed store
\* and the connection's view are the same before and after the record.
C3_MismatchWritesNothing ==
    [][(AtLine /\ ReportedLemmaDiffers(Lines[pos], lemma_pos_pairs))
          => (db' = db /\ conn' = conn)]_vars

\* a mismatching record has just been handled on a store that holds rows
C3_Witness ==
    /\ AfterLine
    /\ ReportedLemmaDiffers(Lines[pos - 1], lemma_pos_pairs)
    /\ out[Len(out)] = "Warning: Response lemma does not match input"
    /\ db.tables.entries # {}

(* --------------------------------- C4 ---------------------------------- *)

\* some process invocation starts in this step
ProcessInvoked ==
    \/ ProcessNoJobId
    \/ ProcessPending
    \/ ProcessInputMissing
    \/ ProcessInputEmpty
    \/ ProcessOpen

\* C4: a process run started while the job identifier exists and the job is
\* not completed reports the status and exits with status zero, and changes
\* nothing local: not the store, its connection, nor any file.
C4_PendingNoSideEffects ==
    [][(ProcessInvoked /\ job_id_file.exists /\ job.status # "completed")
          => /\ pc' = "idle"
             /\ exit_code' = 0
             /\ out' = <<"Batch job not complete yet.", job.status>>
             /\ UNCHANGED <<db, conn, results_file, tasks_file, job_id_file, tsv>>]_vars

\* a process run has just reported a job that is still pending
C4_Witness ==
    /\ pc = "idle"
    /\ cmd = "process"
    /\ exit_code = 0
    /\ job.status = "in_progress"
    /\ out = <<"Batch job not complete yet.", "in_progress">>
    /\ ~db.created /\ ~results_file.exists

(* --------------------------------- C5 ---------------------------------- *)

\* the stored data without the row identifiers: each lemma with its code,
\* each word with its owning lemma, and how many entries each lemma has of
\* each shape (code, order index, ordered children)
ChildrenOf(rows, entry_id) ==
    {[text |-> c.text, order_index |-> c.order_index] :
        c \in {x \in rows : x.entry_id = entry_id}}

LemmaTextOf(t, lemma_id) ==
    {l.lemma : l \in {x \in t.lemmas : x.id = lemma_id}}

EntryShape(t, e) ==
    [lemma |-> LemmaTextOf(t, e.lemma_id),
     part_of_speech |-> e.part_of_speech,
     order_index |-> e.order_index,
     definitions |-> ChildrenOf(t.definitions, e.id),
     synonyms |-> ChildrenOf(t.synonyms, e.id),
     antonyms |-> ChildrenOf(t.antonyms, e.id)]

StoredData(t) ==
    [lemmas |-> {[lemma |-> l.lemma, input_part_of_speech |-> l.input_part_of_speech] :
                    l \in t.lemmas},
     words |-> {[word |-> w.word, lemma |-> LemmaTextOf(t, w.lemma_id)] : w \in t.words},
     entries |-> {[shape |-> EntryShape(t, e),
                   count |-> Cardinality({x \in t.entries :
                                            EntryShape(t, x) = EntryShape(t, e)})] :
                     e \in t.entries}]

Orderings(n) ==
    {p \in [1..n -> 1..n] : \A i, j \in 1..n : p[i] = p[j] => i = j}

Permuted(lines, p) == [i \in 1..Len(lines) |-> lines[p[i]]]

\* every permutation of the downloaded stream, reconciled on the database of
\* this run's start, stores what this run stored
OrderTolerant ==
    \A p \in Orderings(Len(Lines)) :
        StoredData(Reconcile(at_open.tables, Permuted(Lines, p), lemma_pos_pairs))
            = StoredData(db.tables)

\* the record is written: it reports its original lemma
Written(line, pairs) == ReportsOriginal(line, pairs)

\* no lemma text occurs twice in the pair list
DistinctLemmas(pairs) ==
    \A i, j \in 1..Len(pairs) : pairs[i].lemma = pairs[j].lemma => i = j

\* no word form is reported by written records of two different lemmas
NoSharedWordForms(lines, pairs) ==
    \A i, j \in 1..Len(lines) :
        (Written(lines[i], pairs) /\ Written(lines[j], pairs)
         /\ PairOf(lines[i], pairs).lemma # PairOf(lines[j], pairs).lemma)
        => \A a \in 1..Len(Get(DataOf(lines[i]), "word_forms", <<>>)),
              b \in 1..Len(Get(DataOf(lines[j]), "word_forms", <<>>)) :
              DataOf(lines[i]).word_forms[a] # DataOf(lines[j]).word_forms[b]

\* every line is JSON, and every written record is complete
NoneFails(lines, pairs) ==
    \A k \in 1..Len(lines) :
        /\ lines[k].ok
        /\ Written(lines[k], pairs) => Complete(lines[k])

C6_RerunSameRows ==
    (RunEnded /\ at_open.rerun) => db.tables = at_open.tables

(* --------------------------------- C7 ---------------------------------- *)

LemmaTextsUnique(t) == \A a, b \in t.lemmas : a.lemma = b.lemma => a = b

\* C7: the lemma upsert is idempotent.  When a record is written whose lemma
\* text the connection already holds, with whatever code, the write does not
\* raise on the duplicate, the lemma rows stay as they were (one row with
\* that text), and the words and entries the write adds carry the identifier
\* of the row that was there.
C7_LemmaUpsertIdempotent ==
    [][\A l \in conn.t.lemmas :
          (AtLine /\ Written(Lines[pos], lemma_pos_pairs)
                  /\ l.lemma = PairOf(Lines[pos], lemma_pos_pairs).lemma)
          => /\ pc' = "loop"
             /\ Complete(Lines[pos]) => out' = Append(out, "Processed")
             /\ conn'.t.lemmas = conn.t.lemmas
             /\ LemmaTextsUnique(conn'.t)
             /\ \A e \in conn'.t.entries \ conn.t.entries : e.lemma_id = l.id
             /\ \A w \in conn'.t.words \ conn.t.words : w.lemma_id = l.id]_vars

\* two records with the same lemma text and different codes were written,
\* and there is one lemma row
C7_Witness ==
    /\ AfterLine
    /\ pos = 3
    /\ Written(Lines[1], lemma_pos_pairs) /\ Complete(Lines[1])
    /\ Written(Lines[2], lemma_pos_pairs) /\ Complete(Lines[2])
    /\ PairOf(Lines[1], lemma_pos_pairs).lemma = PairOf(Lines[2], lemma_pos_pairs).lemma
    /\ PairOf(Lines[1], lemma_pos_pairs).input_pos
          # PairOf(Lines[2], lemma_pos_pairs).input_pos
    /\ Cardinality(conn.t.lemmas) = 1
    /\ Cardinality(conn.t.entries) > 1

(* --------------------------------- C8 ---------------------------------- *)

WordsUnique(t) == \A a, b \in t.words : a.word = b.word => a = b

\* C8: word forms are first-writer-wins.  Every word text has at most one row,
\* on disk and in the connection's view, and a word row, once there, stays
\* with the lemma it was first attached to, whatever is written later.
C8_WordsFirstWriterWins ==
    [][/\ WordsUnique(db'.tables)
       /\ WordsUnique(conn'.t)
       /\ db.tables.words \subseteq db'.tables.words
       /\ (pc = "loop" /\ pc' = "loop") => conn.t.words \subseteq conn'.t.words]_vars

\* a record was written that reports a word form owned by another lemma
C8_Witness ==
    /\ AfterLine
    /\ out[Len(out)] = "Processed"
    /\ Written(Lines[pos - 1], lemma_pos_pairs)
    /\ \E w \in conn.t.words :
          /\ \E k \in 1..Len(Get(DataOf(Lines[pos - 1]), "word_forms", <<>>)) :
                DataOf(Lines[pos - 1]).word_forms[k] = w.word
          /\ LemmaTextOf(conn.t, w.lemma_id)
                # {PairOf(Lines[pos - 1], lemma_pos_pairs).lemma}

(* --------------------------------- C9 ---------------------------------- *)

\* the child rows a list of texts should give: each text at its position
Positioned(texts) ==
    {[text |-> texts[k], order_index |-> k - 1] : k \in 1..Len(texts)}

\* C9: a successful per-lemma write adds one Entry row per entry of the
\* input list, the entry at position i with order index i, and attaches to
\* it exactly the entry's definitions, synonyms and antonyms, each with the
\* order index of its position in its list.
C9_OrderIndicesArePositions ==
    [][(AtLine /\ pc' = "loop" /\ out' = Append(out, "Processed"))
          => LET entries == Get(DataOf(Lines[pos]), "entries", <<>>)
                 added == conn'.t.entries \ conn.t.entries
             IN  /\ Cardinality(added) = Len(entries)
                 /\ \A i \in 1..Len(entries) :
                       \E e \in added :
                          /\ e.order_index = i - 1
                          /\ e.part_of_speech = entries[i].part_of_speech
                          /\ LemmaTextOf(conn'.t, e.lemma_id)
                                = {PairOf(Lines[pos], lemma_pos_pairs).lemma}
                          /\ ChildrenOf(conn'.t.definitions, e.id)
                                = Positioned(entries[i].definitions)
                          /\ ChildrenOf(conn'.t.synonyms, e.id)
                                = Positioned(entries[i].synonyms)
                          /\ ChildrenOf(conn'.t.antonyms, e.id)
                                = Positioned(entries[i].antonyms)]_vars

\* a record with two entries, one of them with two definitions, was written
C9_Witness ==
    /\ AfterLine
    /\ out[Len(out)] = "Processed"
    /\ Len(Get(DataOf(Lines[pos - 1]), "entries", <<>>)) > 1
    /\ Len(DataOf(Lines[pos - 1]).entries[1].definitions) > 1
    /\ Persisted(db.tables, PairOf(Lines[pos - 1], lemma_pos_pairs).lemma,
                 DataOf(Lines[pos - 1]))

(* --------------------------------- C10 --------------------------------- *)

ReferencesHold(t) ==
    /\ \A w \in t.words : \E l \in t.lemmas : l.id = w.lemma_id
    /\ \A e \in t.entries : \E l \in t.lemmas : l.id = e.lemma_id
    /\ \A c \in t.definitions \cup t.synonyms \cup t.antonyms :
          \E e \in t.entries : e.id = c.entry_id

\* C10: referential integrity.  In every state, on disk and in the
\* connection's view, every Word and every Entry references an existing
\* Lemma and every Definition, Synonym and Antonym an existing Entry.
C10_ReferentialIntegrity == ReferencesHold(db.tables) /\ ReferencesHold(conn.t)

\* a run with a skipped record and a failed write has ended, and the store
\* holds rows of every kind
C10_Witness ==
    /\ RunCompleted
    /\ failed_rows # {}
    /\ \A tb \in TableNames : db.tables[tb] # {}

(* --------------------------------- C11 --------------------------------- *)

\* some submit invocation runs in this step
SubmitInvoked ==
    \/ SubmitInputMissing
    \/ SubmitInputEmpty
    \/ SubmitBatch

\* the input source is absent, empty, or holds the header row only
NoDataRows(file) == ~file.exists \/ Len(file.rows) <= 1

\* C11: submission fails fast on missing or empty input.  A submit run that
\* finds the input source absent or without data rows (empty, or header
\* only) ends with nonzero status before any call to the service (no upload,
\* no job creation), and the job identifier file stays as it was.
C11_SubmitFailsFastOnNoInput ==
    [][(SubmitInvoked /\ NoDataRows(tsv))
          => /\ exit_code' # 0
             /\ api_calls' = <<>>
             /\ UNCHANGED <<job, job_id_file>>]_vars

(* --------------------------------- C12 --------------------------------- *)

\* the index the reconciler extracts from a task identifier
ExtractedIndex(custom_id) == ParseInt(LastPiece(custom_id))

\* C12: task identifiers round-trip to positions.  For every submitted pair
\* list, written to the tasks file and handed to the service, the task at
\* position i carries the identifier built from i alone, identifiers of
\* distinct positions differ, and the index the reconciler extracts from the
\* identifier is i; when the reconciler has re-read the pair list, the pair
\* it finds at that index is the pair the task's prompt was built from.
C12_TaskIdsRoundTrip ==
    /\ job.id > 0 => tasks_file.content = job.tasks
    /\ \A i \in 1..Len(job.tasks) :
          /\ job.tasks[i].custom_id = TaskId(i - 1)
          /\ \A j \in 1..Len(job.tasks) :
                job.tasks[i].custom_id = job.tasks[j].custom_id => i = j
          /\ ExtractedIndex(job.tasks[i].custom_id) = [ok |-> TRUE, val |-> i - 1]
          /\ pc = "loop" =>
                /\ i <= Len(lemma_pos_pairs)
                /\ LET pair == lemma_pos_pairs[
                                   ExtractedIndex(job.tasks[i].custom_id).val + 1]
                   IN  BuildPrompt(pair.lemma, pair.input_pos) = job.tasks[i].prompt

\* the result of the task at a two-digit position was written under the pair
\* of that position
C12_Witness ==
    /\ AfterLine
    /\ Len(job.tasks) > 10
    /\ out[Len(out)] = "Processed"
    /\ Lines[pos - 1].obj.custom_id = job.tasks[Len(job.tasks)].custom_id
    /\ \E l \in db.tables.lemmas :
          BuildPrompt(l.lemma, l.input_part_of_speech)
              = job.tasks[Len(job.tasks)].prompt

(* --------------------------------- C13 --------------------------------- *)

\* C13: end to end.  From an empty store with the input pairs [(run, v)] and
\* a completed job that returns the one result of task 0 (lemma run, word
\* forms run/runs/running/ran, one entry v with definition "move fast",
\* synonym "sprint", antonym "walk"), the reconciled store holds exactly one
\* Lemma (run, v), four Words pointing to it, one Entry (v, order 0) of that
\* lemma, one Definition, one Synonym and one Antonym of that entry, each of
\* order 0, and nothing else.
C13_EndToEnd ==
    (/\ RunEnded
     /\ at_open.tables = EmptyTables
     /\ lemma_pos_pairs = <<[lemma |-> Run, input_pos |-> <<"v">>]>>
     /\ Lines = <<RunVerbLine>>)
    => /\ RunCompleted
       /\ db.tables =
            [lemmas |-> {[id |-> 1, lemma |-> Run, input_part_of_speech |-> <<"v">>]},
             words |-> {[id |-> 1, word |-> "run", lemma_id |-> 1],
                        [id |-> 2, word |-> "runs", lemma_id |-> 1],
                        [id |-> 3, word |-> "running", lemma_id |-> 1],
                        [id |-> 4, word |-> "ran", lemma_id |-> 1]},
             entries |-> {[id |-> 1, lemma_id |-> 1, part_of_speech |-> "v",
                           order_index |-> 0]},
             definitions |-> {[id |-> 1, entry_id |-> 1, text |-> "move fast",
                               order_index |-> 0]},
             synonyms |-> {[id |-> 1, entry_id |-> 1, text |-> "sprint",
                            order_index |-> 0]},
             antonyms |-> {[id |-> 1, entry_id |-> 1, text |-> "walk",
                            order_index |-> 0]}]

\* the scenario's run has ended and the store holds rows
C13_Witness ==
    /\ RunEnded
    /\ at_open.tables = EmptyTables
    /\ lemma_pos_pairs = <<[lemma |-> Run, input_pos |-> <<"v">>]>>
    /\ Lines = <<RunVerbLine>>
    /\ Cardinality(db.tables.words) = 4

(* --------------------------------- C14 --------------------------------- *)

\* no two rows of a table share their identifier
IdsUnique(t) == \A tb \in TableNames : \A a, b \in t[tb] : a.id = b.id => a = b

\* C14: the store is append-only.  Whatever step is taken, by a submit run,
\* a process run or the service, every row of the committed store is in the
\* store afterwards under the same identifier with the same column values,
\* and the database file, once created, stays; so a lemma keeps the code of
\* its first write when a later record for the same text carries another.
C14_AppendOnly ==
    [][/\ \A tb \in TableNames : db.tables[tb] \subseteq db'.tables[tb]
       /\ IdsUnique(db'.tables)
       /\ db.created => db'.created]_vars

\* a run has ended in which a complete record was written for a lemma whose
\* stored code is another than the one of the record's pair
C14_Witness ==
    /\ RunCompleted
    /\ \E l \in db.tables.lemmas :
          \E k \in 1..Len(Lines) :
             /\ Written(Lines[k], lemma_pos_pairs) /\ Complete(Lines[k])
             /\ PairOf(Lines[k], lemma_pos_pairs).lemma = l.lemma
             /\ PairOf(Lines[k], lemma_pos_pairs).input_pos # l.input_part_of_speech
             /\ Persisted(db.tables, l.lemma, DataOf(Lines[k]))

(* --------------------------------- C15 --------------------------------- *)

\* process is invoked on a completed job whose results no run has fetched
FirstReconciliation == ProcessOpen /\ ~job.fetched

\* The specification with the scheduling the program and its operator give:
\* the external job is not held back, process is invoked again until a run
\* has found the job completed and fetched its results, and a running
\* process takes its next step.  For the steps that handle a line, weak
\* fairness is written by what it amounts to, a run never staying at a line
\* forever: one of the two steps is enabled at every line, and a run has
\* finitely many lines.
FairSpec ==
    /\ Spec
    /\ WF_vars(JobCompletes)
    /\ WF_vars(FirstReconciliation)
    /\ WF_vars(ProcessClose)
    /\ []<>~AtLine

\* every record of the stream that parses, reports its original lemma and is
\* complete is in the committed store
AllMatchingPersisted ==
    \A k \in 1..Len(Lines) :
        (ReportsOriginal(Lines[k], lemma_pos_pairs) /\ Complete(Lines[k]))
            => Persisted(db.tables, PairOf(Lines[k], lemma_pos_pairs).lemma,
                         DataOf(Lines[k]))

\* C15: re-running reconciliation suffices to finish.  Once a job was
\* submitted and has completed and process runs on its results (and is run
\* again as long as needed), every process run terminates, and eventually a
\* process run has ended with every result record that parses and matches
\* its original lemma persisted in the store.
C15_RerunFinishes ==
    /\ [](pc = "loop" => <>(pc = "idle"))
    /\ [](pc = "loop" => <>(RunEnded /\ AllMatchingPersisted))

(* --------------------------------- C16 --------------------------------- *)

\* C16: reconciliation only happens after a submission.  A process run that
\* finds no job identifier file ends at once with nonzero status, calls the
\* service not at all and leaves the store, its connection, the job and the
\* results file as they were.  The job identifier file changes only in a
\* submit run that created a job, to that job's identifier: never in a step
\* that starts a process run, nor while one is in its loop.
C16_ProcessNeedsSubmission ==
    [][/\ (~job_id_file.exists /\ ProcessInvoked)
            => /\ pc' = "idle"
               /\ exit_code' # 0
               /\ api_calls' = <<>>
               /\ UNCHANGED <<db, conn, job, results_file, job_id_file>>
       /\ job_id_file' # job_id_file
            => /\ pc = "idle"
               /\ SubmitInvoked
               /\ ~ProcessInvoked
               /\ cmd' = "submit"
               /\ api_calls' = <<"files.create", "batches.create">>
               /\ job'.id # job.id
               /\ job_id_file' = [exists |-> TRUE, id |-> job'.id]]_vars

\* a process run that found no job identifier has just ended: nothing was
\* called, no job exists, no database and no results file were created
C16_Witness ==
    /\ pc = "idle"
    /\ cmd = "process"
    /\ exit_code = 1
    /\ out = <<"No batch job ID found.">>
    /\ api_calls = <<>>
    /\ ~job_id_file.exists
    /\ job = NoJob
    /\ ~db.created /\ ~results_file.exists

(* --------------------------------- C17 --------------------------------- *)

\* an entry with every omitted array taken as the empty list
DefaultedEntry(entry) ==
    [part_of_speech |-> entry.part_of_speech,
     definitions |-> Get(entry, "definitions", <<>>),
     synonyms |-> Get(entry, "synonyms", <<>>),
     antonyms |-> Get(entry, "antonyms", <<>>)]

\* a payload with every omitted array taken as the empty list
Defaulted(data) ==
    [lemma |-> data.lemma,
     word_forms |-> Get(data, "word_forms", <<>>),
     entries |-> [i \in 1..Len(Get(data, "entries", <<>>)) |->
                     DefaultedEntry(data.entries[i])]]

\* the record matches its original lemma and every entry names its part of
\* speech: at most arrays are missing
OnlyArraysMissing(line, pairs) ==
    /\ ReportsOriginal(line, pairs)
    /\ \A i \in 1..Len(Get(DataOf(line), "entries", <<>>)) :
          "part_of_speech" \in DOMAIN DataOf(line).entries[i]

\* C17: missing optional arrays default to empty.  A matching result record
\* whose payload omits word_forms or entries, or whose entry omits its
\* definitions, synonyms or antonyms, is reported as processed and is then
\* in the store, with each omitted array taken as the empty list.
C17_MissingArraysDefaultToEmpty ==
    [][(AtLine /\ OnlyArraysMissing(Lines[pos], lemma_pos_pairs))
          => /\ out' = Append(out, "Processed")
             /\ Persisted(db'.tables, PairOf(Lines[pos], lemma_pos_pairs).lemma,
                          Defaulted(DataOf(Lines[pos])))]_vars

(* --------------------------------- C18 --------------------------------- *)

\* C18 as claimed: a process run started while the input source is absent
\* ends at once with nonzero exit status, and the store is neither created
\* nor modified.
C18_InputMissingFails ==
    [][(ProcessInvoked /\ ~tsv.exists)
          => /\ pc' = "idle"
             /\ exit_code' # 0
             /\ UNCHANGED <<db, conn>>]_vars

\* C18 as amended: a process run started while the input source is absent
\* ends without creating or modifying the store; when the job has completed
\* it first saves the downloaded results and then fails with status 1, and
\* its status is zero only when the job exists and has not completed, the
\* input then not being looked for.
C18_InputMissingFailsOnceCompleted ==
    [][(~tsv.exists /\ ProcessInvoked)
          => /\ pc' = "idle"
             /\ UNCHANGED <<db, conn>>
             /\ (job_id_file.exists /\ job.status = "completed")
                   => /\ exit_code' = 1
                      /\ api_calls' = <<"batches.retrieve", "files.content">>
                      /\ results_file' = File(job'.output)
                      /\ out' = <<"Results saved", "Error: 'lemmas.tsv' not found.">>
             /\ exit_code' = 0
                   <=> (job_id_file.exists /\ job.status # "completed")]_vars

\* a process run on a completed job has just failed on the absent input,
\* with the results saved and no database
C18_Witness ==
    /\ pc = "idle"
    /\ cmd = "process"
    /\ exit_code = 1
    /\ ~tsv.exists
    /\ job.status = "completed"
    /\ out = <<"Results saved", "Error: 'lemmas.tsv' not found.">>
    /\ results_file.exists
    /\ ~db.created

(* --------------------------------- C19 --------------------------------- *)

\* the line is a JSON object whose task identifier has no numeric suffix, or
\* one that is no position of the pair list
NoValidPosition(line, pairs) ==
    /\ line.ok
    /\ LET idx == ExtractedIndex(Get(line.obj, "custom_id", <<>>))
       IN  ~idx.ok \/ idx.val >= Len(pairs)

\* C19: a result record whose task identifier yields no valid position in
\* the pair list (no numeric suffix, or an index at or beyond the list's
\* length) is reported as an error and writes nothing, neither to the
\* committed store nor to the connection, and the loop goes on to the next
\* line.
C19_InvalidPositionSkipped ==
    [][(AtLine /\ NoValidPosition(Lines[pos], lemma_pos_pairs))
          => /\ db' = db
             /\ conn' = conn
             /\ pc' = "loop"
             /\ pos' = pos + 1
             /\ out' = Append(out, "Error processing result")]_vars

\* the first line, a record with no valid position, was skipped, and the
\* record after it was written
C19_Witness ==
    /\ AfterLine
    /\ pos = 3
    /\ NoValidPosition(Lines[1], lemma_pos_pairs)
    /\ out[Len(out) - 1] = "Error processing result"
    /\ out[Len(out)] = "Processed"
    /\ db.tables.lemmas # at_open.tables.lemmas

====
